---- MODULE Spec2Model ----
(***************************************************************************)
(* Smitten sequence identifiers (src/rust/src/lib.rs): conversion of the   *)
(* legacy grammars V0/V1 to V2 (convert_id), the strict V2 parser          *)
(* (parse_id), the renderer (Display for Identifier) and the normalizer    *)
(* (normalize_id), with the public entry points built on them.             *)
(*                                                                         *)
(* A text is a sequence of one-character strings. Numbers are parsed from  *)
(* and rendered to decimal digits. The two regular expressions are modelled*)
(* by what the regex crate computes for them (leftmost match, greedy       *)
(* groups, '.' not matching a line feed, '$' only at the end of the text). *)
(***************************************************************************)
EXTENDS Integers, Sequences, FiniteSets, TLC

VARIABLES input, zbho, op, result, prev, loop

vars == <<input, zbho, op, result, prev, loop>>

\* ------------------------------------------------------------------ bounds

\* Coordinates written in the generated inputs range over 0..MaxCoord.
MaxCoord == 2
\* Largest number of range suffixes appended to a generated input.
MaxChain == 1
\* Largest number of nested V2 ranges given to the normalizer.
MaxNest == 3

\* ---------------------------------------------------------------- helpers

\* let b = v in F(b): v is evaluated once and b stands for its value.
With(v, F(_)) == CHOOSE r \in {F(b) : b \in {v}} : TRUE

Min(S) == CHOOSE x \in S : \A y \in S : x <= y

Max(S) == CHOOSE x \in S : \A y \in S : x >= y

\* ------------------------------------------------------------- characters

Digit == {"0", "1", "2", "3", "4", "5", "6", "7", "8", "9"}

IsDigit(c) == c \in Digit

\* char::is_whitespace, restricted to the characters of the model's alphabet.
IsWhitespace(c) == c \in {" ", "\t", "\n", "\r"}

DigitVal(c) ==
    CASE c = "0" -> 0 [] c = "1" -> 1 [] c = "2" -> 2 [] c = "3" -> 3
      [] c = "4" -> 4 [] c = "5" -> 5 [] c = "6" -> 6 [] c = "7" -> 7
      [] c = "8" -> 8 [] c = "9" -> 9

DigitChar(d) ==
    CASE d = 0 -> "0" [] d = 1 -> "1" [] d = 2 -> "2" [] d = 3 -> "3"
      [] d = 4 -> "4" [] d = 5 -> "5" [] d = 6 -> "6" [] d = 7 -> "7"
      [] d = 8 -> "8" [] d = 9 -> "9"

\* Width of usize on the modelled target. Rust guarantees at least 16 bits;
\* the 16-bit target keeps every wrapped value inside TLC's integers.
UsizeBits == 16

UsizeMod == 2 ^ UsizeBits

\* str::parse::<usize>() on a text of digits; -1 stands for the Err that
\* the callers unwrap (the value does not fit in usize).
RECURSIVE ParseUsize(_)
ParseUsize(ds) ==
    IF ds = <<>> THEN 0
    ELSE With(ParseUsize(SubSeq(ds, 1, Len(ds) - 1)), LAMBDA hi :
           IF hi < 0 \/ 10 * hi + DigitVal(ds[Len(ds)]) >= UsizeMod THEN -1
           ELSE 10 * hi + DigitVal(ds[Len(ds)]))

\* format!("{}", n) for a usize: decimal, no leading zeros.
RECURSIVE FmtUsize(_)
FmtUsize(n) ==
    IF n < 10 THEN <<DigitChar(n)>>
    ELSE FmtUsize(n \div 10) \o <<DigitChar(n % 10)>>

\* --------------------------------------------------------------- regexes

\* End of the greedy \d+ run that starts at position i (first position
\* past the run; i itself when t[i] is no digit).
DigitRunEnd(t, i) ==
    IF \A j \in i..Len(t) : IsDigit(t[j]) THEN Len(t) + 1
    ELSE Min({j \in i..Len(t) : ~IsDigit(t[j])})

\* Whether t[k..] is  [sep1](\d+)[sep2](\d+)((_)([marks]))?$
TailMatch(t, k, sep1s, sep2s, marks) ==
    /\ t[k] \in sep1s
    /\ \E j1 \in {DigitRunEnd(t, k + 1)} :
         /\ j1 > k + 1
         /\ j1 <= Len(t)
         /\ t[j1] \in sep2s
         /\ \E j2 \in {DigitRunEnd(t, j1 + 1)} :
              /\ j2 > j1 + 1
              /\ \/ j2 = Len(t) + 1
                 \/ j2 = Len(t) - 1 /\ t[j2] = "_" /\ t[Len(t)] \in marks

NoCaptures ==
    [matched |-> FALSE, g1 |-> <<>>, g3 |-> "", g4 |-> <<>>, g5 |-> "",
     g6 |-> <<>>, g7 |-> FALSE, g9 |-> ""]

\* Regex::captures for  (.*)(([sep1])(\d+)([sep2])(\d+)((_)([marks]))?)$ :
\* the leftmost start from which a line-feed-free prefix reaches a matching
\* tail, and from that start the longest prefix (greedy .*).
ReCaptures(t, sep1s, sep2s, marks) ==
    With({k \in 1..Len(t) : TailMatch(t, k, sep1s, sep2s, marks)}, LAMBDA Ks :
      IF Ks = {} THEN NoCaptures
      ELSE
        With(Max({0} \cup {i \in 1..(Min(Ks) - 1) : t[i] = "\n"}) + 1, LAMBDA s :
        With(Max({x \in Ks : \A i \in s..(x - 1) : t[i] # "\n"}), LAMBDA k :
        With(DigitRunEnd(t, k + 1), LAMBDA j1 :
        With(DigitRunEnd(t, j1 + 1), LAMBDA j2 :
          [matched |-> TRUE,
           g1 |-> SubSeq(t, s, k - 1),
           g3 |-> t[k],
           g4 |-> SubSeq(t, k + 1, j1 - 1),
           g5 |-> t[j1],
           g6 |-> SubSeq(t, j1 + 1, j2 - 1),
           g7 |-> j2 <= Len(t),
           g9 |-> IF j2 <= Len(t) THEN t[Len(t)] ELSE ""])))))

\* lib.rs:210
ConvertRe(t) == ReCaptures(t, {":", "_"}, {"-", "_"}, {"R", "+", "-"})

\* lib.rs:324
ParseRe(t) == ReCaptures(t, {":"}, {"-"}, {"+", "-"})

\* str::split(':') as a sequence of texts (always at least one piece).
RECURSIVE Split(_)
Split(t) ==
    IF \A i \in 1..Len(t) : t[i] # ":" THEN <<t>>
    ELSE With(Max({i \in 1..Len(t) : t[i] = ":"}), LAMBDA c :
           Split(SubSeq(t, 1, c - 1)) \o <<SubSeq(t, c + 1, Len(t))>>)

\* ---------------------------------------------------------------- values

None == [some |-> FALSE, val |-> <<>>]

Some(x) == [some |-> TRUE, val |-> x]

Range(s, e, o) == [start |-> s, end |-> e, orientation |-> o]

Identifier(a, s, rs) ==
    [assembly_id |-> a, sequence_id |-> s, ranges |-> rs, inferred_version |-> "V2"]

NoId == Identifier(None, <<>>, <<>>)

\* Results of the entry points. version is the IDVersion that
\* from_unknown_format returns beside the Identifier ("-" for the others).
Ok(id) == [status |-> "Ok", err |-> "", id |-> id, version |-> "-"]

Err(e) == [status |-> "Err", err |-> e, id |-> NoId, version |-> "-"]

\* A panic unwinding out of the call: no value is returned.
Panic(e) == [status |-> "Panic", err |-> e, id |-> NoId, version |-> "-"]

\* Results of the two private text producers, convert_id and normalize_id.
OkText(t, v) == [status |-> "Ok", err |-> "", text |-> t, version |-> v]

ErrText(e) == [status |-> "Err", err |-> e, text |-> <<>>, version |-> "-"]

PanicText(e) == [status |-> "Panic", err |-> e, text |-> <<>>, version |-> "-"]

Reverse(s) == [i \in 1..Len(s) |-> s[Len(s) + 1 - i]]

\* The rendering with the two coordinates exchanged.
FmtRangeSwapped(r) ==
    <<":">> \o FmtUsize(r.end) \o <<"-">> \o FmtUsize(r.start) \o <<"_", r.orientation>>

\* ":{}-{}_{}" of a range (lib.rs:182, 307).
FmtRange(r) ==
    <<":">> \o FmtUsize(r.start) \o <<"-">> \o FmtUsize(r.end) \o <<"_", r.orientation>>

RECURSIVE FmtRanges(_)
FmtRanges(rs) ==
    IF rs = <<>> THEN <<>> ELSE FmtRange(Head(rs)) \o FmtRanges(Tail(rs))

\* impl Display for Identifier.
to_string(id) ==
    (IF id.assembly_id.some THEN id.assembly_id.val \o <<":">> ELSE <<>>)
        \o id.sequence_id \o FmtRanges(id.ranges)

\* ------------------------------------------------------------- parse_id

\* The loop of parse_id: st is [id_str, ranges, status], ranges in peel
\* order (innermost first). captures[9] indexes a group that took no part in
\* the match when the suffix has no orientation marker: that index panics.
\* The same test with the check left out.
OutOfOrderIgnored(start, end) == FALSE

\* lib.rs:335.
OutOfOrder(start, end) == start > end

RECURSIVE ParseLoop(_)
ParseLoop(st) ==
    With(ParseRe(st.id_str), LAMBDA c :
      IF ~c.matched THEN st
      ELSE
        With(ParseUsize(c.g4), LAMBDA start :
        With(ParseUsize(c.g6), LAMBDA end :
          IF start < 0 \/ end < 0 THEN [st EXCEPT !.status = "panic_parse"]
          ELSE IF ~c.g7 THEN [st EXCEPT !.status = "panic_group"]
          ELSE IF OutOfOrder(start, end) THEN [st EXCEPT !.status = "decreasing"]
          ELSE ParseLoop([id_str |-> c.g1,
                          ranges |-> Append(st.ranges, Range(start, end, c.g9)),
                          status |-> "loop"]))))

\* The split with the count of pieces left unchecked: the last piece is the
\* sequence, the one before it the assembly.
ParseFinishAnyPieces(id_str, ranges) ==
    With(Split(id_str), LAMBDA ids :
      IF Len(ids) >= 2
      THEN IF ids[Len(ids)] = <<>> THEN Err("parseID_no_sequence")
           ELSE Ok(Identifier(Some(ids[Len(ids) - 1]), ids[Len(ids)], Reverse(ranges)))
      ELSE IF ids[1] = <<>> THEN Err("parseID_no_sequence")
           ELSE Ok(Identifier(None, ids[1], Reverse(ranges))))

\* lib.rs:346-373: the split of what the loop left, ranges outermost first.
ParseFinish(id_str, ranges) ==
    With(Split(id_str), LAMBDA ids :
      IF Len(ids) > 2 THEN Err("parseID_colons")
      ELSE IF Len(ids) = 2
      THEN IF ids[2] = <<>> THEN Err("parseID_no_sequence")
           ELSE Ok(Identifier(Some(ids[1]), ids[2], Reverse(ranges)))
      ELSE IF ids[1] = <<>> THEN Err("parseID_no_sequence")
           ELSE Ok(Identifier(None, ids[1], Reverse(ranges))))

parse_id(id) ==
    With(ParseLoop([id_str |-> id, ranges |-> <<>>, status |-> "loop"]), LAMBDA st :
      IF st.status = "panic_parse" THEN Panic("parse_usize")
      ELSE IF st.status = "panic_group" THEN Panic("no_group_9")
      ELSE IF st.status = "decreasing" THEN Err("parseID_increasing")
      ELSE ParseFinish(st.id_str, st.ranges))

from_v2(id) == parse_id(id)

\* ---------------------------------------------------------- normalize_id

\* usize arithmetic. overflow_checks is the build's setting: with it (the
\* dev profile) an overflowing operation panics, without it (the release
\* profile) the value wraps. -1 stands for the panic.
usub(a, b, overflow_checks) ==
    IF a < 0 \/ b < 0 THEN -1
    ELSE IF a >= b THEN a - b
    ELSE IF overflow_checks THEN -1
    ELSE a - b + UsizeMod

uadd(a, b, overflow_checks) ==
    IF a < 0 \/ b < 0 THEN -1
    ELSE IF a + b < UsizeMod THEN a + b
    ELSE IF overflow_checks THEN -1
    ELSE a + b - UsizeMod

\* lib.rs:404-410, as written.
ComposeOrient(range_orientation, curr_orient) ==
    IF range_orientation = "-" /\ curr_orient = "-" THEN "+"
    ELSE IF range_orientation = "-" \/ curr_orient = "+" THEN "-"
    ELSE curr_orient

\* The fold step with the forward shift taken from the ancestor's end.
NormalizeStepFromEnd(cur, range, oc) ==
    IF cur.start_idx < 0 \/ cur.end_idx < 0 THEN cur
    ELSE
      [start_idx |-> IF range.orientation = "-"
                     THEN uadd(usub(range.end, cur.start_idx, oc), 1, oc)
                     ELSE usub(uadd(range.end, cur.start_idx, oc), 1, oc),
       end_idx   |-> IF range.orientation = "-"
                     THEN uadd(usub(range.end, cur.end_idx, oc), 1, oc)
                     ELSE usub(uadd(range.end, cur.end_idx, oc), 1, oc),
       curr_orient |-> ComposeOrient(range.orientation, cur.curr_orient)]

\* The fold step with the reflection written without its + 1.
NormalizeStepOffByOne(cur, range, oc) ==
    IF cur.start_idx < 0 \/ cur.end_idx < 0 THEN cur
    ELSE
      [start_idx |-> IF range.orientation = "-"
                     THEN usub(range.end, cur.start_idx, oc)
                     ELSE usub(uadd(range.start, cur.start_idx, oc), 1, oc),
       end_idx   |-> IF range.orientation = "-"
                     THEN usub(range.end, cur.end_idx, oc)
                     ELSE usub(uadd(range.start, cur.end_idx, oc), 1, oc),
       curr_orient |-> ComposeOrient(range.orientation, cur.curr_orient)]

\* One iteration of the fold (lib.rs:395-411) over ancestor `range`;
\* cur is [start_idx, end_idx, curr_orient].
NormalizeStep(cur, range, oc) ==
    IF cur.start_idx < 0 \/ cur.end_idx < 0 THEN cur
    ELSE
      [start_idx |-> IF range.orientation = "-"
                     THEN uadd(usub(range.end, cur.start_idx, oc), 1, oc)
                     ELSE usub(uadd(range.start, cur.start_idx, oc), 1, oc),
       end_idx   |-> IF range.orientation = "-"
                     THEN uadd(usub(range.end, cur.end_idx, oc), 1, oc)
                     ELSE usub(uadd(range.start, cur.end_idx, oc), 1, oc),
       curr_orient |-> ComposeOrient(range.orientation, cur.curr_orient)]

\* self.ranges.iter().rev().skip(1): ancestors i, i-1, .., 1.
RECURSIVE NormalizeFold(_, _, _, _)
NormalizeFold(cur, ranges, i, oc) ==
    IF i = 0 THEN cur
    ELSE NormalizeFold(NormalizeStep(cur, ranges[i], oc), ranges, i - 1, oc)

\* lib.rs:384-387, 414-417: the assembly and sequence part of the text.
IdPrefix(self) ==
    (IF self.assembly_id.some THEN self.assembly_id.val \o <<":">> ELSE <<>>)
        \o self.sequence_id

\* lib.rs:391-393: the innermost range, where the fold starts.
NormalizeStart(self) ==
    [start_idx   |-> self.ranges[Len(self.ranges)].start,
     end_idx     |-> self.ranges[Len(self.ranges)].end,
     curr_orient |-> self.ranges[Len(self.ranges)].orientation]

\* The fold with skip(1) left out: the innermost range is folded over itself.
AncestorsNoSkip(self) == Len(self.ranges)

\* lib.rs:395, .rev().skip(1): the fold runs over the ranges before the last.
Ancestors(self) == Len(self.ranges) - 1

normalize_id(self, oc) ==
    IF self.ranges = <<>> THEN OkText(IdPrefix(self), "-")
    ELSE
      With(NormalizeFold(NormalizeStart(self), self.ranges, Ancestors(self), oc),
           LAMBDA cur :
        IF cur.start_idx < 0 \/ cur.end_idx < 0 THEN PanicText("arithmetic_overflow")
        ELSE IF cur.start_idx < cur.end_idx
        THEN OkText(IdPrefix(self) \o <<":">> \o FmtUsize(cur.start_idx) \o <<"-">>
                        \o FmtUsize(cur.end_idx) \o <<"_", cur.curr_orient>>, "-")
        ELSE OkText(IdPrefix(self) \o <<":">> \o FmtUsize(cur.end_idx) \o <<"-">>
                        \o FmtUsize(cur.start_idx) \o <<"_", cur.curr_orient>>, "-"))

normalize(self, oc) ==
    With(normalize_id(self, oc), LAMBDA normalized_id_str :
      IF normalized_id_str.status = "Panic" THEN Panic(normalized_id_str.err)
      ELSE IF normalized_id_str.status = "Err" THEN Err(normalized_id_str.err)
      ELSE parse_id(normalized_id_str.text))

\* ------------------------------------------------------------ convert_id

\* lib.rs:226-237: the grammar a matched suffix is written in.
RangeFmt(c) ==
    IF c.g3 = ":" /\ c.g5 = "-" /\ c.g7 THEN "V2"
    ELSE IF c.g3 = ":" /\ c.g5 = "-" THEN "V1"
    ELSE "V0"

\* lib.rs:247-257: the range a suffix of grammar range_fmt yields, or the
\* decreasing-range error.
\* The match with its V1 arm keeping the coordinates as written.
OrderRangeAsWritten(range_fmt, start, end, orientation) ==
    IF range_fmt \in {"V0", "V2"} /\ start > end
    THEN [ok |-> FALSE, range |-> Range(start, end, orientation)]
    ELSE IF range_fmt = "V1"
    THEN [ok |-> TRUE, range |-> Range(start, end, IF start > end THEN "-" ELSE "+")]
    ELSE [ok |-> TRUE, range |-> Range(start, end, orientation)]

OrderRange(range_fmt, start, end, orientation) ==
    IF range_fmt \in {"V0", "V2"} /\ start > end
    THEN [ok |-> FALSE, range |-> Range(start, end, orientation)]
    ELSE IF range_fmt = "V1" /\ start > end
    THEN [ok |-> TRUE, range |-> Range(end, start, "-")]
    ELSE IF range_fmt = "V1"
    THEN [ok |-> TRUE, range |-> Range(start, end, "+")]
    ELSE [ok |-> TRUE, range |-> Range(start, end, orientation)]

ConvertInit(id) ==
    [sequence_id |-> id, inferred_fmt |-> "None", ranges |-> <<>>, status |-> "loop"]

\* One pass of the while-let loop of convert_id (lib.rs:216-266) from loop
\* state st = [sequence_id, inferred_fmt, ranges, status]. status "loop":
\* the loop goes on; "done": the pattern no longer matches; "break": the
\* suffix is of another grammar than the first; "decreasing": the early
\* return of line 249; "panic_parse": a coordinate does not fit in usize.
\* The zbho increment is written without wrap-around: coordinates of the
\* model stay far below usize::MAX.
\* lib.rs:219-221: the orientation a suffix states ('+' when it has none).
SuffixOrientation(c) == IF ~c.g7 THEN "+" ELSE IF c.g9 = "R" THEN "-" ELSE c.g9

\* The test with the comparison left out: no suffix ever stops the loop.
InconsistentNever(inferred_fmt, range_fmt) == FALSE

\* lib.rs:239-241: a grammar was inferred and this suffix is of another.
Inconsistent(inferred_fmt, range_fmt) ==
    inferred_fmt # "None" /\ inferred_fmt # range_fmt

ConvertPeel(st, zb) ==
    With(ConvertRe(st.sequence_id), LAMBDA c :
      IF ~c.matched THEN [st EXCEPT !.status = "done"]
      ELSE
        With(ParseUsize(c.g4), LAMBDA start0 :
        With(ParseUsize(c.g6), LAMBDA end :
        With(IF zb THEN start0 + 1 ELSE start0, LAMBDA start :
        With(RangeFmt(c), LAMBDA range_fmt :
        With(OrderRange(range_fmt, start, end, SuffixOrientation(c)), LAMBDA o :
          IF start0 < 0 \/ end < 0 THEN [st EXCEPT !.status = "panic_parse"]
          ELSE IF Inconsistent(st.inferred_fmt, range_fmt)
          THEN [st EXCEPT !.status = "break"]
          ELSE IF ~o.ok
          THEN [st EXCEPT !.status = "decreasing", !.inferred_fmt = range_fmt]
          ELSE [sequence_id  |-> c.g1,
                inferred_fmt |-> range_fmt,
                ranges       |-> Append(st.ranges, o.range),
                status       |-> "loop"]))))))

RECURSIVE ConvertLoop(_, _)
ConvertLoop(st, zb) ==
    IF st.status # "loop" THEN st ELSE ConvertLoop(ConvertPeel(st, zb), zb)

\* lib.rs:290-308: the first check that fails walking the ranges outermost
\* first ("" when none fails). parent_len is -1 for None.
RECURSIVE ValidateRanges(_, _)
ValidateRanges(rs, parent_len) ==
    IF rs = <<>> THEN ""
    ELSE IF rs[1].start = 0 \/ rs[1].end = 0 THEN "convertID_zero"
    ELSE IF parent_len >= 0 /\ (rs[1].start > parent_len \/ rs[1].end > parent_len)
    THEN "convertID_bounds"
    ELSE ValidateRanges(Tail(rs), rs[1].end - rs[1].start + 1)

\* lib.rs:268-310: what convert_id does once the loop has ended normally.
\* lib.rs:284-310: the checks on the chain (outermost first) and the text
\* pushed after the assembly and sequence part v2_id.
ConvertEmit(v2_id, chain, inferred_fmt) ==
    With(ValidateRanges(chain, -1), LAMBDA failed :
      IF failed # "" THEN ErrText(failed)
      ELSE OkText(v2_id \o FmtRanges(chain), inferred_fmt))

ColonCount(t) == Cardinality({i \in 1..Len(t) : t[i] = ":"})

\* The tag with lines 268-270 left out.
InferredTagKept(st) == st.inferred_fmt

\* lib.rs:268-270: the tag of a call that peeled nothing is Undefined.
InferredTag(st) == IF st.ranges = <<>> THEN "Undefined" ELSE st.inferred_fmt

ConvertFinish(id, st) ==
    With(InferredTag(st), LAMBDA inferred_fmt :
    With(Split(st.sequence_id), LAMBDA ids :
    With(ColonCount(st.sequence_id), LAMBDA colons :
      IF colons = 1 /\ Len(ids) = 2 /\ ids[1] # <<>> /\ ids[2] # <<>>
      THEN ConvertEmit(ids[1] \o <<":">> \o ids[2], Reverse(st.ranges), inferred_fmt)
      ELSE IF colons = 0 /\ Len(ids) = 1 /\ st.sequence_id # <<>>
      THEN ConvertEmit(st.sequence_id, Reverse(st.ranges), inferred_fmt)
      ELSE ErrText("convertID_structure"))))

\* lib.rs:203.
HasWhitespace(id) ==
    \E i \in 1..Len(id) : IsWhitespace(id[i]) \/ id[i] = "\n" \/ id[i] = "\r"

\* lib.rs:249-253, 268-310: what convert_id returns once its loop has ended
\* in state st.
ConvertResult(id, st) ==
    IF st.status = "panic_parse" THEN PanicText("parse_usize")
    ELSE IF st.status = "decreasing" THEN ErrText("convertID_increasing")
    ELSE ConvertFinish(id, st)

convert_id(id, zb) ==
    IF HasWhitespace(id) THEN ErrText("convertID_whitespace")
    ELSE ConvertResult(id, ConvertLoop(ConvertInit(id), zb))

\* ---------------------------------------------------------- entry points

\* lib.rs:125-131: the `?` on convert_id's result, then parse_id on its
\* text, returned with the inferred version.
ParseConverted(c) ==
    IF c.status = "Panic" THEN Panic(c.err)
    ELSE IF c.status = "Err" THEN Err(c.err)
    ELSE With(parse_id(c.text), LAMBDA identifier :
           IF identifier.status = "Ok"
           THEN [identifier EXCEPT !.version = c.version]
           ELSE identifier)

from_unknown_format(id, zb) == ParseConverted(convert_id(id, zb))

\* lib.rs:138-139: as above, the inferred version dropped.
ParseConvertedId(c) ==
    IF c.status = "Panic" THEN Panic(c.err)
    ELSE IF c.status = "Err" THEN Err(c.err)
    ELSE parse_id(c.text)

from_v0(id) == ParseConvertedId(convert_id(id, FALSE))

from_v1(id) == ParseConvertedId(convert_id(id, FALSE))

\* ---------------------------------------------------------------- inputs

\* One range suffix as text: sep1 a sep2 b mark.
SuffixText(sep1, a, sep2, b, mark) ==
    <<sep1>> \o FmtUsize(a) \o <<sep2>> \o FmtUsize(b) \o mark

\* Suffixes in any of the three grammars, and the mixed-separator forms.
AnySuffixes ==
    {SuffixText(s1, a, s2, b, m) :
        s1 \in {":", "_"}, a \in 0..MaxCoord, s2 \in {"-", "_"}, b \in 0..MaxCoord,
        m \in {<<>>, <<"_", "R">>, <<"_", "+">>, <<"_", "-">>}}

\* Suffixes with V2 separators, with and without the orientation marker.
ColonSuffixes ==
    {SuffixText(":", a, "-", b, m) :
        a \in 0..MaxCoord, b \in 0..MaxCoord, m \in {<<>>, <<"_", "+">>, <<"_", "-">>}}

\* V2 suffixes with one-based coordinates written low-high.
CanonSuffixes ==
    UNION {{SuffixText(":", a, "-", b, m) :
               b \in a..MaxCoord, m \in {<<"_", "+">>, <<"_", "-">>}} :
           a \in 1..MaxCoord}

\* The texts before the first suffix. A sequence name:
MainHeads == {<<"c">>}

\* a sequence name with or without an assembly:
NamedHeads == {<<"c">>, <<"a", ":", "c">>}

\* and the others: an assembly, an empty side, two colons, nothing at all,
\* and names that hold a space or a line feed.
OtherHeads ==
    {<<"a", ":", "c">>, <<":", "c">>, <<"a", ":">>, <<"a", ":", "b", ":", "c">>, <<>>,
     <<"c", " ", "d">>, <<"a", "\n", "c">>}

\* Suffixes of the three grammars (V0 plain and reverse, V1, V2 forward and
\* reverse) with one-based coordinates, written low-high from 1 or high-low
\* down to 1.
GrammarSuffixes ==
    {SuffixText(f[1], p[1], f[2], p[2], f[3]) :
        f \in {<<"_", "_", <<>>>>, <<"_", "_", <<"_", "R">>>>, <<":", "-", <<>>>>,
               <<":", "-", <<"_", "+">>>>, <<":", "-", <<"_", "-">>>>},
        p \in {<<1, b>> : b \in 1..MaxCoord} \cup {<<MaxCoord, 1>>}}

\* Texts that come close to ending in a suffix without doing so.
NearMisses ==
    {<<"c", "_", "1">>, <<"c", ":", "1", "-">>, <<"1", "-", "2">>,
     <<"a", ":", "c", "_", "1", "_", "2", "x">>, <<"c", ":", "1", "-", "2", "_">>,
     <<"c", ":", "1", "-", "2", "+">>}

RECURSIVE Chains(_, _)
Chains(S, n) ==
    IF n = 0 THEN {<<>>}
    ELSE LET shorter == Chains(S, n - 1)
         IN  shorter \cup {c \o x : c \in shorter, x \in S}

Inputs(H, S, n) == {h \o c : h \in H, c \in Chains(S, n)}

\* ------------------------------------------------------------ the machine

\* A caller holds an input text, calls one entry point on it, and may then
\* normalize the Identifier it got (and normalize the outcome once more) or
\* render and re-parse it. op names the last call; result is what it
\* returned; prev is the result the last call started from; zbho is the flag
\* given to from_unknown_format. loop is the state of convert_id's loop
\* where a specification follows it pass by pass.

Idle == [status |-> "Idle", err |-> "", id |-> NoId, version |-> "-"]

NoLoop == [sequence_id |-> <<>>, inferred_fmt |-> "None", ranges |-> <<>>, status |-> "idle"]

Start(texts) ==
    /\ input \in texts
    /\ zbho = FALSE
    /\ op = "start"
    /\ result = Idle
    /\ prev = Idle
    /\ loop = NoLoop

Init ==
    Start(Inputs(MainHeads, AnySuffixes, MaxChain)
            \cup Inputs(OtherHeads, ColonSuffixes, MaxChain)
            \cup NearMisses)

InitDeep == Start(Inputs(MainHeads, AnySuffixes, MaxChain + 1))

InitCanonical == Start(Inputs(MainHeads \cup OtherHeads, ColonSuffixes, MaxChain))

InitNormalize == Start(Inputs(NamedHeads, CanonSuffixes, MaxNest))

InitPeel ==
    Start(Inputs(MainHeads, AnySuffixes, MaxChain)
            \cup OtherHeads
            \cup Inputs(MainHeads, GrammarSuffixes, MaxChain + 1))

FromUnknown ==
    /\ op = "start"
    /\ \E zb \in BOOLEAN :
         /\ zbho' = zb
         /\ result' = from_unknown_format(input, zb)
    /\ op' = "from_unknown_format"
    /\ UNCHANGED <<input, prev, loop>>

FromV0 ==
    /\ op = "start"
    /\ result' = from_v0(input)
    /\ op' = "from_v0"
    /\ UNCHANGED <<input, zbho, prev, loop>>

FromV1 ==
    /\ op = "start"
    /\ result' = from_v1(input)
    /\ op' = "from_v1"
    /\ UNCHANGED <<input, zbho, prev, loop>>

FromV2 ==
    /\ op = "start"
    /\ result' = from_v2(input)
    /\ op' = "from_v2"
    /\ UNCHANGED <<input, zbho, prev, loop>>

ParseOps == {"from_unknown_format", "from_v0", "from_v1", "from_v2"}

\* id.normalize() on the Identifier of the last result, under either build
\* profile.
Normalize ==
    /\ op \in ParseOps \cup {"normalize"}
    /\ result.status = "Ok"
    /\ \E overflow_checks \in BOOLEAN :
         result' = normalize(result.id, overflow_checks)
    /\ prev' = result
    /\ op' = IF op = "normalize" THEN "normalize2" ELSE "normalize"
    /\ UNCHANGED <<input, zbho, loop>>

\* Identifier::from_v2(&id.to_string()) on an Identifier from_v2 returned.
Reparse ==
    /\ op = "from_v2"
    /\ result.status = "Ok"
    /\ result' = from_v2(to_string(result.id))
    /\ prev' = result
    /\ op' = "reparse"
    /\ UNCHANGED <<input, zbho, loop>>

Next == FromUnknown \/ FromV0 \/ FromV1 \/ FromV2 \/ Normalize \/ Reparse

NextV2 == FromV2 \/ Normalize \/ Reparse

\* Every entry point on heads of all kinds with up to MaxChain suffixes.
Spec == Init /\ [][Next]_vars

\* Every entry point on a sequence name with one suffix more.
SpecDeep == InitDeep /\ [][Next]_vars

\* The V2 parser, the renderer and the normalizer on heads of all kinds with
\* up to MaxChain colon-dash suffixes.
SpecCanonical == InitCanonical /\ [][NextV2]_vars

\* The V2 parser and the normalizer on chains of up to MaxNest ranges.
SpecNormalize == InitNormalize /\ [][NextV2]_vars

\* convert_id followed pass by pass, as from_unknown_format runs it.
ConvertStart ==
    /\ op = "start"
    /\ \E zb \in BOOLEAN : zbho' = zb
    /\ IF HasWhitespace(input)
       THEN /\ op' = "from_unknown_format"
            /\ result' = Err("convertID_whitespace")
            /\ loop' = loop
       ELSE /\ op' = "convert_loop"
            /\ result' = result
            /\ loop' = ConvertInit(input)
    /\ UNCHANGED <<input, prev>>

ConvertPass ==
    /\ op = "convert_loop"
    /\ loop.status = "loop"
    /\ loop' = ConvertPeel(loop, zbho)
    /\ UNCHANGED <<input, zbho, op, result, prev>>

ConvertReturn ==
    /\ op = "convert_loop"
    /\ loop.status # "loop"
    /\ result' = ParseConverted(ConvertResult(input, loop))
    /\ op' = "from_unknown_format"
    /\ UNCHANGED <<input, zbho, prev, loop>>

NextPeel == ConvertStart \/ ConvertPass \/ ConvertReturn

SpecPeel == InitPeel /\ [][NextPeel]_vars

\* ================================================================ claims

IsOk == result.status = "Ok"

\* ---------------------------------------------------------------------
\* C1: normalize composes orientation as exclusive-or over the chain: the
\* single range it returns is reverse iff an odd number of the chain's
\* ranges are reverse; a chain of forward ranges normalizes to forward.
\* (Stated on the result of the fold; the code does not satisfy it.)
ReverseCount(rs) == Cardinality({i \in 1..Len(rs) : rs[i].orientation = "-"})

C1_OrientationIsXor ==
    (op = "normalize" /\ IsOk /\ prev.id.ranges # <<>>)
        => /\ Len(result.id.ranges) = 1
           /\ result.id.ranges[1].orientation =
                  (IF ReverseCount(prev.id.ranges) % 2 = 1 THEN "-" ELSE "+")

\* ---------------------------------------------------------------------
\* C2: for a non-empty chain r0..rn with coordinates >= 1, ordered and
\* nested within bounds, normalize returns the same assembly_id and
\* sequence_id and exactly one range (min(s,e), max(s,e)), (s,e) being
\* (rn.start, rn.end) folded over r(n-1) down to r0: reflected about r.end
\* for a reverse ancestor, shifted by r.start for a forward one.
ValidChain(rs) ==
    /\ rs # <<>>
    /\ \A i \in 1..Len(rs) : rs[i].start >= 1 /\ rs[i].start <= rs[i].end
    /\ \A i \in 2..Len(rs) : rs[i].end <= rs[i - 1].end - rs[i - 1].start + 1

RECURSIVE FoldedPair(_, _, _)
FoldedPair(se, rs, i) ==
    IF i = 0 THEN se
    ELSE FoldedPair(IF rs[i].orientation = "-"
                    THEN <<rs[i].end - se[1] + 1, rs[i].end - se[2] + 1>>
                    ELSE <<rs[i].start + se[1] - 1, rs[i].start + se[2] - 1>>,
                    rs, i - 1)

ChainPair(rs) == FoldedPair(<<rs[Len(rs)].start, rs[Len(rs)].end>>, rs, Len(rs) - 1)

C2_NormalizeCoordinates ==
    (op = "normalize" /\ prev.status = "Ok" /\ ValidChain(prev.id.ranges))
        => /\ IsOk
           /\ result.id.assembly_id = prev.id.assembly_id
           /\ result.id.sequence_id = prev.id.sequence_id
           /\ Len(result.id.ranges) = 1
           /\ result.id.ranges[1].start =
                  Min({ChainPair(prev.id.ranges)[1], ChainPair(prev.id.ranges)[2]})
           /\ result.id.ranges[1].end =
                  Max({ChainPair(prev.id.ranges)[1], ChainPair(prev.id.ranges)[2]})

\* A valid chain of three ranges has been normalized: the innermost one lies
\* at the far end of a reverse parent longer than one position, so that the
\* reflection moves it.
C2_Witness ==
    /\ op = "normalize"
    /\ IsOk
    /\ ValidChain(prev.id.ranges)
    /\ Len(prev.id.ranges) = 3
    /\ prev.id.ranges[2].orientation = "-"
    /\ prev.id.ranges[2].end > prev.id.ranges[2].start
    /\ prev.id.ranges[3].start = prev.id.ranges[2].end
    /\ result.id.ranges[1].start < prev.id.ranges[3].start

\* ---------------------------------------------------------------------
\* C3: bounds invariant: in every Identifier returned by from_unknown_format,
\* from_v0 or from_v1, each range's end is at most the length of the range
\* before it. (The code does not satisfy it.)
C3_BoundsInvariant ==
    (op \in {"from_unknown_format", "from_v0", "from_v1"} /\ IsOk)
        => \A i \in 2..Len(result.id.ranges) :
              result.id.ranges[i].end
                  <= result.id.ranges[i - 1].end - result.id.ranges[i - 1].start + 1

\* ---------------------------------------------------------------------
\* C4: ordering invariant: every range of every Identifier returned by
\* from_v2, from_unknown_format, from_v0, from_v1 or normalize has
\* start <= end; a reverse range stores its low coordinate as start.
C4_OrderingInvariant ==
    IsOk => \A i \in 1..Len(result.id.ranges) :
               result.id.ranges[i].start <= result.id.ranges[i].end

\* from_v1 was given a range written high-low and returned it low-high,
\* reverse.
C4_Witness ==
    /\ op = "from_v1"
    /\ input = <<"c", ":", "2", "-", "1">>
    /\ IsOk
    /\ result.id.ranges = <<Range(1, 2, "-")>>

C6_NormalizeIdempotent ==
    /\ op = "normalize2" => (IsOk /\ result.id = prev.id)
    /\ (op \in {"normalize", "normalize2"} /\ IsOk)
          => Len(result.id.ranges) = (IF prev.id.ranges = <<>> THEN 0 ELSE 1)

\* The result of normalizing a chain of three ranges has been normalized
\* again.
C6_Witness ==
    /\ op = "normalize2"
    /\ IsOk
    /\ Len(result.id.ranges) = 1
    /\ Len(from_v2(input).id.ranges) = 3
    /\ result.id.ranges[1].start > 1

\* ---------------------------------------------------------------------
\* C7: from_v2 never takes a trailing ':digits-digits' without orientation
\* marker as a range and never aborts on it: the call returns Ok or Err, and
\* an Ok value for such an input peeled nothing. (The code does not satisfy
\* it.)
BareTail(t) ==
    \E i, j \in 1..Len(t) :
        /\ t[i] = ":" /\ t[j] = "-"
        /\ i + 1 < j /\ j < Len(t)
        /\ \A k \in ((i + 1)..(j - 1)) \cup ((j + 1)..Len(t)) : IsDigit(t[k])

C7_BareTailNotPeeled ==
    (op = "from_v2" /\ BareTail(input))
        => /\ result.status \in {"Ok", "Err"}
           /\ IsOk => result.id.ranges = <<>>

\* ---------------------------------------------------------------------
\* C8, as stated: no Identifier returned by from_v2 has an assembly_id that
\* is present but empty, or an empty sequence_id. (Refuted: an empty
\* assembly side is accepted.)
C8_NoEmptyPart ==
    (op = "from_v2" /\ IsOk)
        => /\ result.id.sequence_id # <<>>
           /\ ~(result.id.assembly_id.some /\ result.id.assembly_id.val = <<>>)

\* C8, amended: from_v2 accepts the text left after peeling exactly when it
\* holds at most one ':' and the text after its last ':' (all of it when it
\* has none) is non-empty; any other remainder makes the call fail with an
\* error. The accepted remainder gives the sequence_id (never empty) and,
\* when it has a ':', the assembly_id, which may be present and empty.
Remainder(t) == ParseLoop([id_str |-> t, ranges |-> <<>>, status |-> "loop"])

LastColon(t) == Max({0} \cup {i \in 1..Len(t) : t[i] = ":"})

AfterLastColon(t) == SubSeq(t, LastColon(t) + 1, Len(t))

BeforeLastColon(t) == SubSeq(t, 1, LastColon(t) - 1)

Acceptable(t) == ColonCount(t) <= 1 /\ AfterLastColon(t) # <<>>

C8_RemainderAccepted ==
    (op = "from_v2" /\ Remainder(input).status = "loop")
        => /\ IsOk <=> Acceptable(Remainder(input).id_str)
           /\ ~IsOk => result.status = "Err"
           /\ IsOk =>
                /\ result.id.sequence_id = AfterLastColon(Remainder(input).id_str)
                /\ result.id.sequence_id # <<>>
                /\ result.id.assembly_id =
                      (IF ColonCount(Remainder(input).id_str) = 1
                       THEN Some(BeforeLastColon(Remainder(input).id_str))
                       ELSE None)

\* from_v2 returned an Identifier whose assembly_id is present and empty,
\* after peeling a range.
C8_Witness ==
    /\ op = "from_v2"
    /\ IsOk
    /\ result.id.assembly_id = Some(<<>>)
    /\ Len(result.id.ranges) = 1

\* ---------------------------------------------------------------------
\* C9: an input holding a whitespace or line-termination character is
\* rejected with an error by from_unknown_format, from_v0, from_v1 and
\* from_v2. (The code does not satisfy it.)
C9_WhitespaceRejected ==
    (op \in ParseOps /\ \E i \in 1..Len(input) : IsWhitespace(input[i]))
        => result.status = "Err"

\* ---------------------------------------------------------------------
\* C10: ordering rule of convert_id for each peeled suffix, after the
\* optional +1 on start: a V0 or V2 suffix with start > end makes the whole
\* call fail with the decreasing-range error; a V1 suffix never fails on
\* ordering and yields (end, start, '-') when start > end and
\* (start, end, '+') otherwise.
\* What the claim requires of a pass that peels a suffix of grammar fmt with
\* coordinates start (after the +1) and end, from loop state st to st2.
PeelOrdered(fmt, start, end, st, st2) ==
    /\ (fmt \in {"V0", "V2"} /\ start > end) => st2.status = "decreasing"
    /\ fmt = "V1"
          => /\ st2.status = "loop"
             /\ st2.ranges = Append(st.ranges,
                                    IF start > end THEN Range(end, start, "-")
                                    ELSE Range(start, end, "+"))

\* c is the match of the pattern on st.sequence_id; the pass peels when there
\* is a match of the grammar inferred so far.
PeelRule(c, st, st2, zb) ==
    (c.matched /\ st.inferred_fmt \in {"None", RangeFmt(c)})
        => PeelOrdered(RangeFmt(c), ParseUsize(c.g4) + (IF zb THEN 1 ELSE 0),
                       ParseUsize(c.g6), st, st2)

C10_OrderingRule ==
    [][/\ (op = "convert_loop" /\ loop.status = "loop")
          => PeelRule(ConvertRe(loop.sequence_id), loop, loop', zbho)
       /\ (op = "convert_loop" /\ loop.status = "decreasing")
          => result' = Err("convertID_increasing")]_vars

\* A V1 suffix written high-low has been peeled and stored low-high, reverse.
C10_Witness ==
    /\ op = "convert_loop"
    /\ loop.inferred_fmt = "V1"
    /\ loop.ranges = <<Range(1, 2, "-")>>
    /\ input = <<"c", ":", "2", "-", "1">>

\* ---------------------------------------------------------------------
\* C11: for an input without whitespace that ends in no range suffix of any
\* grammar and is a non-empty text without ':' or has exactly one ':' with
\* both sides non-empty, from_unknown_format succeeds with the tag
\* Undefined and an Identifier with no range that renders as the input.
BareSuffixEnds(t) ==
    \E i, j \in 1..Len(t) :
        /\ t[i] \in {":", "_"} /\ t[j] \in {"-", "_"}
        /\ i + 1 < j /\ j < Len(t)
        /\ \A k \in ((i + 1)..(j - 1)) \cup ((j + 1)..Len(t)) : IsDigit(t[k])

Unmarked(t) ==
    IF Len(t) >= 2 /\ t[Len(t) - 1] = "_" /\ t[Len(t)] \in {"R", "+", "-"}
    THEN SubSeq(t, 1, Len(t) - 2)
    ELSE t

EndsInSuffix(t) == BareSuffixEnds(t) \/ BareSuffixEnds(Unmarked(t))

PlainName(t) ==
    /\ \A i \in 1..Len(t) : ~IsWhitespace(t[i])
    /\ ~EndsInSuffix(t)
    /\ \/ ColonCount(t) = 0 /\ t # <<>>
       \/ ColonCount(t) = 1 /\ BeforeLastColon(t) # <<>> /\ AfterLastColon(t) # <<>>

C11_PlainNameEchoed ==
    (op = "from_unknown_format" /\ PlainName(input))
        => /\ IsOk
           /\ result.version = "Undefined"
           /\ result.id.ranges = <<>>
           /\ to_string(result.id) = input

\* from_unknown_format has returned for a name with an assembly whose
\* sequence part stops short of being a suffix.
C11_Witness ==
    /\ op = "from_unknown_format"
    /\ input = <<"c", ":", "1", "-">>
    /\ PlainName(input)
    /\ IsOk
    /\ result.id.assembly_id = Some(<<"c">>)

\* ---------------------------------------------------------------------
\* C12: in the loop of convert_id the grammar tag is fixed by the first
\* (rightmost) suffix and never changes; every range collected was
\* classified with that tag; a later suffix that classifies differently
\* stops the loop without an error and stays, unpeeled, in the text; the
\* tag returned with a non-empty chain is the class of the rightmost suffix.
\* c is the match of the pattern on st.sequence_id, st2 the state after the
\* pass.
TagRule(c, st, st2) ==
    /\ st.inferred_fmt # "None" => st2.inferred_fmt = st.inferred_fmt
    /\ (c.matched /\ st.inferred_fmt \notin {"None", RangeFmt(c)})
          => st2 = [st EXCEPT !.status = "break"]
    /\ st2.ranges # st.ranges
          => /\ c.matched
             /\ RangeFmt(c) = st2.inferred_fmt
             /\ Len(st2.ranges) = Len(st.ranges) + 1
             /\ SubSeq(st2.ranges, 1, Len(st.ranges)) = st.ranges

C12_GrammarFixedByFirst ==
    [][/\ (op = "convert_loop" /\ loop.status = "loop")
          => TagRule(ConvertRe(loop.sequence_id), loop, loop')
       /\ (op = "convert_loop" /\ loop.status = "break")
          => result' # Err("convertID_increasing")
       /\ (op = "convert_loop" /\ loop.ranges # <<>> /\ result'.status = "Ok")
          => result'.version = RangeFmt(ConvertRe(input))]_vars

\* The loop has stopped at a V2 suffix after peeling a V0 range.
C12_Witness ==
    /\ op = "convert_loop"
    /\ loop.status = "break"
    /\ loop.inferred_fmt = "V0"
    /\ Len(loop.ranges) = 1
    /\ RangeFmt(ConvertRe(loop.sequence_id)) = "V2"

\* ---------------------------------------------------------------------
\* C13: whenever convert_id succeeds on an input, with assembly a, sequence
\* s, k validated ranges and text t, from_unknown_format returns Ok with an
\* Identifier that has that a, that s and those k ranges in the same order
\* and renders as t: the re-parse of t peels nothing convert_id left in the
\* sequence text and does not abort. (The code does not satisfy it.)
ConvertedAssembly(st) ==
    IF ColonCount(st.sequence_id) = 1 THEN Some(BeforeLastColon(st.sequence_id)) ELSE None

C13_AgreesWithConvert ==
    (op = "from_unknown_format" /\ loop.status \in {"done", "break"}
        /\ ConvertResult(input, loop).status = "Ok")
        => /\ IsOk
           /\ result.id.assembly_id = ConvertedAssembly(loop)
           /\ result.id.sequence_id = AfterLastColon(loop.sequence_id)
           /\ result.id.ranges = Reverse(loop.ranges)
           /\ to_string(result.id) = ConvertResult(input, loop).text

\* ---------------------------------------------------------------------
\* C14: for every Identifier from_v2 returned, normalize returns an Ok or
\* Err value and no coordinate it computes goes below 1: no unsigned
\* subtraction of the fold goes below zero, also when a range exceeds its
\* parent's length or a coordinate is 0. (The code does not satisfy it.)
C14_NormalizeStaysPositive ==
    op = "normalize"
        => /\ result.status \in {"Ok", "Err"}
           /\ IsOk => \A i \in 1..Len(result.id.ranges) :
                         result.id.ranges[i].start >= 1

\* ---------------------------------------------------------------------
\* C15: for every chain r0..rn with coordinates >= 1, ordered and nested
\* within bounds, the single range (lo, hi) normalize returns lies inside
\* the outermost range: r0.start <= lo <= hi <= r0.end, whatever the
\* orientations.
C15_InsideOutermost ==
    (op = "normalize" /\ prev.status = "Ok" /\ ValidChain(prev.id.ranges))
        => /\ IsOk
           /\ Len(result.id.ranges) = 1
           /\ prev.id.ranges[1].start <= result.id.ranges[1].start
           /\ result.id.ranges[1].start <= result.id.ranges[1].end
           /\ result.id.ranges[1].end <= prev.id.ranges[1].end

\* A chain of three ranges under a forward outermost range longer than one
\* position has been normalized to the far end of that range.
C15_Witness ==
    /\ op = "normalize"
    /\ IsOk
    /\ ValidChain(prev.id.ranges)
    /\ Len(prev.id.ranges) = 3
    /\ prev.id.ranges[1].orientation = "+"
    /\ prev.id.ranges[1].start < prev.id.ranges[1].end
    /\ result.id.ranges[1].start = prev.id.ranges[1].end

====
